---- MODULE Spec2Model ----
(***************************************************************************)
(* A model of the godot-export action: the export pipeline of godot.ts     *)
(* (exportBuilds, downloadGodot, doExport, findGodotExecutablePath) and    *)
(* the packaging and relocation of file.ts (zipBuildResult,                *)
(* assembleSteamContentsFor, moveBuildsToExportDirectory).                 *)
(*                                                                         *)
(* Strings and paths are sequences of tokens; a token is one character or  *)
(* one opaque run of characters that no operation of the program looks     *)
(* into (the name of a fixed directory, for instance).                     *)
(***************************************************************************)
EXTENDS Integers, Sequences, FiniteSets, TLC

----------------------------------------------------------------------------
(* Bounds of the model *)

\* the largest number of presets in export_presets.cfg, and of artifacts
MaxPresets == 2
\* the largest number of entries of an extracted toolchain tree
MaxEntries == 5
\* the largest depth of an entry below the extraction directory
MaxDepth == 4

----------------------------------------------------------------------------
(* Strings *)

Sep == "/"
NoPath == <<>>

\* the smallest element of a non-empty set of integers
Min(S) == CHOOSE x \in S : \A y \in S : x <= y
Max(S) == CHOOSE x \in S : \A y \in S : x >= y

\* the positions at which pat occurs in s
Occurrences(s, pat) ==
  { k \in 1..(Len(s) - Len(pat) + 1) : SubSeq(s, k, k + Len(pat) - 1) = pat }

\* String.prototype.replace(pat, rep) with a string pattern: the first
\* occurrence only
ReplaceFirst(s, pat, rep) ==
  IF Occurrences(s, pat) = {} THEN s
  ELSE LET k == Min(Occurrences(s, pat))
       IN SubSeq(s, 1, k - 1) \o rep \o SubSeq(s, k + Len(pat), Len(s))

\* s without its trailing separators
RECURSIVE StripSep(_)
StripSep(s) ==
  IF Len(s) > 1 /\ s[Len(s)] = Sep THEN StripSep(SubSeq(s, 1, Len(s) - 1)) ELSE s

LastSep(s) == Max({0} \cup { k \in 1..Len(s) : s[k] = Sep })

\* path.basename
basename(p) ==
  LET q == StripSep(p)
  IN IF q = <<Sep>> THEN <<>> ELSE SubSeq(q, LastSep(q) + 1, Len(q))

\* path.dirname
dirname(p) ==
  LET q == StripSep(p)
      k == LastSep(q)
  IN IF k = 0 THEN <<".">>
     ELSE IF k = 1 THEN <<Sep>>
     ELSE StripSep(SubSeq(q, 1, k - 1))

\* path.join of two segments: an empty segment is dropped, a doubled
\* separator collapses
join(a, b) ==
  IF b = <<>> \/ b = <<".">> THEN a
  ELSE IF a = <<>> \/ a = <<".">> THEN b
  ELSE StripSep(a) \o <<Sep>> \o (IF b[1] = Sep THEN Tail(b) ELSE b)

\* path.extname: from the last "." of the basename, unless that "." is its
\* first character
extname(p) ==
  LET b == basename(p)
      dots == { k \in 1..Len(b) : b[k] = "." }
  IN IF dots = {} \/ Max(dots) = 1 THEN <<>> ELSE SubSeq(b, Max(dots), Len(b))

----------------------------------------------------------------------------
(* Program constants: constants.ts and the heads of godot.ts and file.ts *)

GODOT_WORKING_PATH == <<"~/.local/share/godot">>
GODOT_CONFIG_PATH == <<"~/.config/godot">>
GODOT_BUILD_PATH == join(GODOT_WORKING_PATH, <<"builds">>)
GODOT_ARCHIVE_PATH == join(GODOT_WORKING_PATH, <<"archives">>)
GODOT_PROJECT_PATH == <<"project">>
GODOT_PROJECT_FILE_PATH == join(GODOT_PROJECT_PATH, <<"project.godot">>)
GODOT_DOWNLOAD_URL == <<"https://godot/executable.zip">>
GODOT_TEMPLATES_DOWNLOAD_URL == <<"https://godot/templates.tpz">>
GODOT_EXECUTABLE == <<"godot_executable">>
GODOT_ZIP == <<"godot.zip">>
GODOT_TEMPLATES_FILENAME == <<"godot_templates.tpz">>

----------------------------------------------------------------------------
(* State *)

VARIABLES
  \* --- inputs of the action (constants.ts), read once
  USE_GODOT_4, EXPORT_DEBUG, EXPORT_PACK_ONLY, GODOT_VERBOSE,
  WINE_PATH,      \* TRUE when a wine path is configured
  \* --- the project
  cfgKind,        \* export_presets.cfg: "file", "dir" or "absent"
  presets,        \* the presets getExportPresets has read from it, in order
  \* --- exportBuilds and what it calls (godot.ts)
  pc,             \* where exportBuilds stands
  cmds,           \* the external commands and io calls completed so far
  dl,             \* the two downloads: "idle", "running", "ok", "failed"
  godotVersion,   \* what getGodotVersion returned
  settings,       \* the editor settings file: [exists, lines]
  warnings,       \* the core.warning calls so far
  failed,         \* core.setFailed was called
  idx,            \* doExport: the index of the preset of this iteration
  buildResults,   \* doExport: its local list
  results,        \* what exportBuilds returned to its caller
  builds,         \* the scratch build directories: path -> set of entries
  running,        \* the engine invocations started and not yet returned
  \* --- toolchain tree (prepareExecutable, findGodotExecutablePath)
  tree,           \* the extracted tree: path -> "file" | "dir"
  found,          \* what findGodotExecutablePath returned for tree
  \* --- packaging and relocation (file.ts)
  ARCHIVE_ROOT_FOLDER, USE_PRESET_EXPORT_PATH,
  REVISION,       \* the revision of zipBuildResult that is built:
                  \* "file.ts" (149-172) or "part_000" (100-123)
  stage,          \* which exported function of file.ts is running
  arts,           \* the BuildResults handed to file.ts
  fs,             \* the file system: path -> [kind, data]
  tpc,            \* zipBuildResult: where the task of each artifact stands
  how,            \* zipBuildResult: how the archiving step of each ended
  pcmds,          \* the commands and io calls completed for each artifact
  moveArchived,   \* the argument of moveBuildsToExportDirectory
  mi,             \* moveBuildsToExportDirectory: the index of its loop
  copies,         \* its promises: artifact -> [src, dst, state]
  pwarnings,      \* the artifacts a core.warning of file.ts was about
  fsBefore        \* the file system when the running function was called

config == <<USE_GODOT_4, EXPORT_DEBUG, EXPORT_PACK_ONLY, GODOT_VERBOSE, WINE_PATH,
            cfgKind>>
evars == <<pc, cmds, dl, godotVersion, settings, warnings, failed, idx,
           buildResults, results, builds, running, presets>>
fvars == <<tree, found>>
packConfig == <<ARCHIVE_ROOT_FOLDER, USE_PRESET_EXPORT_PATH, REVISION>>
moveVars == <<moveArchived, mi, copies, pwarnings>>
pvars == <<packConfig, stage, arts, fs, tpc, how, pcmds, moveVars, fsBefore>>
vars == <<config, evars, fvars, pvars>>

\* results of findGodotExecutablePath other than a path
NotRun == <<"not run">>
Undefined == <<>>
ENOTDIR == <<"ENOTDIR">>

----------------------------------------------------------------------------
(* findGodotExecutablePath, godot.ts 240-256 *)

\* the directory 7z extracts the toolchain into (prepareExecutable)
zipTo == join(GODOT_WORKING_PATH, GODOT_EXECUTABLE)

\* The names an entry of the extracted tree can have, in the order in which
\* fs.readdirSync lists them.
EntryNames ==
  << <<"a">>, <<"g", ".", "64">>, <<"g", ".", "x86_64">>, <<"n", ".", "txt">>, <<"z">> >>

\* fs.readdirSync(basePath): the names of the entries of basePath, in order
readdirSync(t, basePath) ==
  SelectSeq(EntryNames, LAMBDA n : join(basePath, n) \in DOMAIN t)

\* the test of line 246
IsExecutable(t, fullPath) ==
  /\ t[fullPath] = "file"
  /\ (extname(fullPath) = <<".", "64">> \/ extname(fullPath) = <<".", "x86_64">>)

RECURSIVE findGodotExecutablePath(_, _)
findGodotExecutablePath(t, basePath) ==
  IF t[basePath] # "dir" THEN ENOTDIR
  ELSE
    LET paths == readdirSync(t, basePath)
        full(k) == join(basePath, paths[k])
        hits == { k \in 1..Len(paths) : IsExecutable(t, full(k)) }
        \* every entry listed before the first hit, or every entry when
        \* there is none, is pushed to dirs, regular files included
        dirs == IF hits = {} THEN [k \in 1..Len(paths) |-> full(k)]
                ELSE [k \in 1..(Min(hits) - 1) |-> full(k)]
    IN IF hits # {} THEN full(Min(hits))
       ELSE IF dirs = <<>> THEN Undefined
       ELSE findGodotExecutablePath(t, dirs[1])

\* --- the toolchain tree on its own: any tree within the bounds, searched

Depth(p) == Cardinality({ k \in 1..Len(p) : p[k] = Sep })
            - Cardinality({ k \in 1..Len(zipTo) : zipTo[k] = Sep })

EmptyTree == [p \in {zipTo} |-> "dir"]

\* file.ts is not running
PackIdle ==
  /\ ARCHIVE_ROOT_FOLDER = FALSE /\ USE_PRESET_EXPORT_PATH = FALSE
  /\ REVISION = "part_000"
  /\ stage = "idle" /\ arts = <<>> /\ fs = <<>>
  /\ tpc = <<>> /\ how = <<>> /\ pcmds = <<>>
  /\ moveArchived = FALSE /\ mi = 0 /\ copies = <<>> /\ pwarnings = {}
  /\ fsBefore = <<>>

\* godot.ts is not running
ExportIdle ==
  /\ USE_GODOT_4 = FALSE /\ EXPORT_DEBUG = FALSE /\ EXPORT_PACK_ONLY = FALSE
  /\ GODOT_VERBOSE = FALSE /\ WINE_PATH = FALSE
  /\ cfgKind = "absent" /\ presets = <<>>
  /\ pc = "idle" /\ cmds = <<>>
  /\ dl = [d \in {"templates", "executable"} |-> "idle"]
  /\ godotVersion = <<>>
  /\ settings = [exists |-> FALSE, lines |-> <<>>]
  /\ warnings = <<>> /\ failed = FALSE /\ idx = 0
  /\ buildResults = <<>> /\ results = <<>>
  /\ builds = <<>> /\ running = <<>>

InitFind ==
  /\ ExportIdle
  /\ PackIdle
  /\ tree = EmptyTree
  /\ found = NotRun

\* one more entry appears in the extracted archive
AddEntry(parent, name, kind) ==
  /\ Cardinality(DOMAIN tree) - 1 < MaxEntries
  /\ tree[parent] = "dir"
  /\ Depth(parent) < MaxDepth
  /\ join(parent, name) \notin DOMAIN tree
  /\ tree' = [p \in DOMAIN tree \cup {join(parent, name)} |->
                IF p \in DOMAIN tree THEN tree[p] ELSE kind]
  /\ found' = NotRun
  /\ UNCHANGED <<pvars, config, evars>>

Find ==
  /\ found = NotRun
  /\ found' = findGodotExecutablePath(tree, zipTo)
  /\ UNCHANGED <<pvars, tree, config, evars>>

NextFind ==
  \/ \E parent \in DOMAIN tree, k \in 1..Len(EntryNames), kind \in {"file", "dir"} :
       AddEntry(parent, EntryNames[k], kind)
  \/ Find

SpecFind == InitFind /\ [][NextFind]_vars

HasExecutable(t) == \E p \in DOMAIN t : IsExecutable(t, p)

\* C2: whenever the extracted tree holds a regular file with a known binary
\* suffix, findGodotExecutablePath returns such a file of the tree, and it
\* returns nothing only when the tree holds none.
C2_FindsNestedExecutable ==
  found # NotRun =>
    /\ HasExecutable(tree) => (found \in DOMAIN tree /\ IsExecutable(tree, found))
    /\ found = Undefined => ~HasExecutable(tree)

----------------------------------------------------------------------------
(* Presets, sanitize-filename, BuildResult *)

\* the characters sanitize-filename removes (its illegalRe)
IllegalChars == {"/", "?", "<", ">", "\\", ":", "*", "|", "\""}

\* s without its trailing dots and spaces (windowsTrailingRe)
RECURSIVE StripTrailing(_)
StripTrailing(s) ==
  IF s # <<>> /\ s[Len(s)] \in {".", " "}
  THEN StripTrailing(SubSeq(s, 1, Len(s) - 1)) ELSE s

\* sanitize(name) of sanitize-filename: illegal characters are removed, the
\* reserved names "." and ".." become empty, trailing dots and spaces go
sanitize(name) ==
  LET legal == SelectSeq(name, LAMBDA c : c \notin IllegalChars)
      kept == IF legal \in {<<".">>, <<".", ".">>} THEN <<>> ELSE legal
  IN StripTrailing(kept)

\* preset.platform values of export_presets.cfg
Windows == <<"Windows Desktop">>
MacOSX == <<"Mac OSX">>
Linux == <<"Linux/X11">>
HTML5 == <<"HTML5">>

\* the presets of the projects exported here
ExportNames == { <<"a">>, <<"a", ":">>, <<"b">> }
ExportPaths == { <<>>, <<"o", "/", "g", ".", "x">> }
ExportPresetPool ==
  [name : ExportNames, platform : {Windows}, export_path : ExportPaths]

\* the preset lists of at most MaxPresets presets of Pool, names unique
PresetLists(Pool) ==
  { l \in UNION { [1..n -> Pool] : n \in 0..MaxPresets } :
      \A j, k \in 1..Len(l) : j # k => l[j].name # l[k].name }

----------------------------------------------------------------------------
(* exportBuilds, godot.ts 30-59, and the functions it calls *)

ExitCodes == {0, 1}

Cmd(prog, args, code) == [prog |-> prog, args |-> args, code |-> code]

\* the commands of list run in order until one fails: the first n succeed
RunUntil(list, n) ==
  [k \in 1..(IF n < Len(list) THEN n + 1 ELSE n) |->
     [list[k] EXCEPT !.code = IF k <= n THEN 0 ELSE 1]]

EDITOR_SETTINGS_FILENAME ==
  IF USE_GODOT_4 THEN <<"editor_settings-4.tres">> ELSE <<"editor_settings-3.tres">>

\* existsSync in place of statSync().isFile(): a directory passes
hasExportPresets_exists == cfgKind # "absent"

\* hasExportPresets, godot.ts 61-68
hasExportPresets == cfgKind = "file"

\* godot.ts 231-232: the two lines configureWindowsExport appends
WineLines == <<"export/windows/rcedit", "export/windows/wine">>

\* the editor settings file before a run: none, the user's own, or what an
\* earlier run with a wine path has left
InitialSettings ==
  { [exists |-> FALSE, lines |-> <<>>],
    [exists |-> TRUE, lines |-> <<"user">>],
    [exists |-> TRUE, lines |-> <<"template">> \o WineLines] }

Init ==
  /\ USE_GODOT_4 \in BOOLEAN /\ EXPORT_DEBUG \in BOOLEAN
  /\ EXPORT_PACK_ONLY \in BOOLEAN /\ GODOT_VERBOSE \in BOOLEAN
  /\ WINE_PATH \in BOOLEAN
  /\ cfgKind \in {"file", "dir", "absent"}
  /\ presets = <<>>
  /\ pc = "exportBuilds" /\ cmds = <<>>
  /\ dl = [d \in {"templates", "executable"} |-> "idle"]
  /\ godotVersion = <<>>
  /\ settings \in InitialSettings
  /\ warnings = <<>> /\ failed = FALSE /\ idx = 0
  /\ buildResults = <<>> /\ results = <<>>
  /\ builds = <<>> /\ running = <<>>
  /\ tree = EmptyTree /\ found = NotRun
  /\ PackIdle

\* godot.ts 31-36: the pre-flight test
ExportBuilds_preflight ==
  /\ pc = "exportBuilds"
  /\ IF ~hasExportPresets
     THEN /\ failed' = TRUE
          /\ results' = <<>>
          /\ pc' = "returned"
     ELSE /\ pc' = "setupWorkingPath"
          /\ UNCHANGED <<failed, results>>
  /\ UNCHANGED <<pvars, config, presets, running, cmds, dl, godotVersion, settings, warnings, idx,
                 buildResults, builds, fvars>>

\* setupWorkingPath, godot.ts 78-81
SetupWorkingPath ==
  /\ pc = "setupWorkingPath"
  /\ cmds' = Append(cmds, Cmd("io.mkdirP", <<GODOT_WORKING_PATH>>, 0))
  /\ pc' = "download"
  /\ UNCHANGED <<pvars, config, presets, running, dl, godotVersion, settings, warnings, failed, idx,
                 buildResults, results, builds, fvars>>

\* godot.ts 72: both downloads are started
StartDownloads ==
  /\ pc = "download"
  /\ dl' = [d \in {"templates", "executable"} |-> "running"]
  /\ pc' = "awaitDownloads"
  /\ UNCHANGED <<pvars, config, presets, running, cmds, godotVersion, settings, warnings, failed, idx,
                 buildResults, results, builds, fvars>>

\* downloadTemplates, godot.ts 83-88: wget returns
DownloadTemplates(code) ==
  /\ dl["templates"] = "running"
  /\ cmds' = Append(cmds, Cmd("wget", <<<<"-nv">>, GODOT_TEMPLATES_DOWNLOAD_URL, <<"-O">>,
                                    join(GODOT_WORKING_PATH, GODOT_TEMPLATES_FILENAME)>>, code))
  /\ dl' = [dl EXCEPT !["templates"] = IF code = 0 THEN "ok" ELSE "failed"]
  /\ UNCHANGED <<pvars, config, presets, running, pc, godotVersion, settings, warnings, failed, idx,
                 buildResults, results, builds, fvars>>

\* downloadExecutable, godot.ts 90-96: wget returns
DownloadExecutable(code) ==
  /\ dl["executable"] = "running"
  /\ cmds' = Append(cmds, Cmd("wget", <<<<"-nv">>, GODOT_DOWNLOAD_URL, <<"-O">>,
                                    join(GODOT_WORKING_PATH, GODOT_ZIP)>>, code))
  /\ dl' = [dl EXCEPT !["executable"] = IF code = 0 THEN "ok" ELSE "failed"]
  /\ UNCHANGED <<pvars, config, presets, running, pc, godotVersion, settings, warnings, failed, idx,
                 buildResults, results, builds, fvars>>

\* fulfilled as soon as one download is done
downloadsDone_any == \E d \in DOMAIN dl : dl[d] = "ok"

\* godot.ts 72: Promise.all is fulfilled when both downloads are done
downloadsDone == \A d \in DOMAIN dl : dl[d] = "ok"

\* godot.ts 72: Promise.all settles, rejected by the first failure, fulfilled
\* when both downloads are done
AwaitDownloads ==
  /\ pc = "awaitDownloads"
  /\ \/ /\ \E d \in DOMAIN dl : dl[d] = "failed"
        /\ pc' = "thrown"
     \/ /\ downloadsDone
        /\ pc' = "prepareExecutable"
  /\ UNCHANGED <<pvars, config, presets, running, cmds, dl, godotVersion, settings, warnings, failed, idx,
                 buildResults, results, builds, fvars>>

\* the trees 7z can extract from the downloaded archive
MkTree(files, dirs) ==
  [p \in {zipTo} \cup files \cup dirs |-> IF p \in files THEN "file" ELSE "dir"]

ExtractedTrees ==
  { MkTree({join(zipTo, <<"g", ".", "64">>)}, {}),
    MkTree({join(join(zipTo, <<"z">>), <<"g", ".", "x86_64">>)},
           {join(zipTo, <<"a">>), join(zipTo, <<"z">>)}),
    MkTree({join(zipTo, <<"n", ".", "txt">>)}, {}) }

\* prepareExecutable, godot.ts 98-103: the archive is extracted
PrepareExecutable_extract(code, t) ==
  /\ pc = "prepareExecutable"
  /\ cmds' = Append(cmds, Cmd("7z", <<<<"x">>, join(GODOT_WORKING_PATH, GODOT_ZIP),
                                     <<"-o">> \o zipTo, <<"-y">>>>, code))
  /\ IF code # 0
     THEN pc' = "thrown" /\ UNCHANGED tree
     ELSE pc' = "findExecutable" /\ tree' = t
  /\ UNCHANGED <<pvars, config, presets, running, dl, godotVersion, settings, warnings, failed, idx,
                 buildResults, results, builds, found>>

\* prepareExecutable, godot.ts 103-106: the executable is looked for
PrepareExecutable_find ==
  /\ pc = "findExecutable"
  /\ found' = findGodotExecutablePath(tree, zipTo)
  /\ pc' = IF found' \in {Undefined, ENOTDIR} THEN "thrown" ELSE "moveExecutable"
  /\ UNCHANGED <<pvars, config, presets, running, cmds, dl, godotVersion, settings, warnings, failed, idx,
                 buildResults, results, builds, tree>>

finalGodotPath == join(dirname(found), <<"godot">>)

\* prepareExecutable, godot.ts 108-111: mv, addPath, chmod; the first n of
\* them succeed, and core.addPath does not fail
PrepareExecutable_move(n) ==
  /\ pc = "moveExecutable"
  /\ n \in {0, 2, 3}
  /\ cmds' = cmds \o RunUntil(<< Cmd("mv", <<found, finalGodotPath>>, 0),
                                 Cmd("core.addPath", <<dirname(finalGodotPath)>>, 0),
                                 Cmd("chmod", <<<<"+x">>, finalGodotPath>>, 0) >>, n)
  /\ pc' = IF n < 3 THEN "thrown" ELSE "getGodotVersion"
  /\ UNCHANGED <<pvars, config, presets, running, dl, godotVersion, settings, warnings, failed, idx,
                 buildResults, results, builds, fvars>>

\* --- getGodotVersion, godot.ts 141-164

Whitespace == {" ", "\n"}

RECURSIVE trim(_)
trim(s) ==
  IF s # <<>> /\ s[1] \in Whitespace THEN trim(Tail(s))
  ELSE IF s # <<>> /\ s[Len(s)] \in Whitespace THEN trim(SubSeq(s, 1, Len(s) - 1))
  ELSE s

\* the characters of [a-z0-9] that version strings here are made of
LowerAlnum ==
  {"a", "b", "c", "d", "e", "f", "i", "l", "o", "s", "t",
   "0", "1", "2", "3", "4", "5", "6", "7", "8", "9"}

\* .replace(/\.[a-z0-9]{9}$/g, '')
StripCommitHash(s) ==
  IF /\ Len(s) >= 10
     /\ s[Len(s) - 9] = "."
     /\ \A k \in (Len(s) - 8)..Len(s) : s[k] \in LowerAlnum
  THEN SubSeq(s, 1, Len(s) - 10) ELSE s

DotOfficial == <<".", "o", "f", "f", "i", "c", "i", "a", "l">>
DotCustomBuild == <<".", "c", "u", "s", "t", "o", "m", "_", "b", "u", "i", "l", "d">>

\* godot.ts 153-157
NormalizeVersion(stdout) ==
  StripCommitHash(ReplaceFirst(ReplaceFirst(trim(stdout), DotOfficial, <<>>),
                               DotCustomBuild, <<>>))

\* what `godot --version` can print, with its exit status
VersionRuns ==
  { [out |-> <<>>, code |-> 1],
    [out |-> <<"3">> \o DotOfficial \o <<"\n">>, code |-> 0],
    [out |-> DotOfficial, code |-> 0],
    [out |-> <<" ", "\n">>, code |-> 0],
    [out |-> DotCustomBuild \o <<".", "b", "0", "9", "f", "7", "9", "3", "f", "5", "\n">>, code |-> 0],
    [out |-> <<"4", ".", "b", "0", "9", "f", "7", "9", "3", "f", "5">>, code |-> 0] }

\* the call of exec is not awaited: the caller goes on at once
afterStart_notAwaited(awaiting, resume) == resume

\* `await exec('godot', ...)`, godot.ts 152, 206 and 293: the caller stands
\* still until the engine has returned
afterStart(awaiting, resume) == awaiting

\* the invocations still running when the one with these arguments returns
Returned(args) ==
  LET at == CHOOSE k \in 1..Len(running) : running[k] = args
  IN SubSeq(running, 1, at - 1) \o SubSeq(running, at + 1, Len(running))

\* getGodotVersion, godot.ts 152: the engine is started
GetGodotVersion_start ==
  /\ pc = "getGodotVersion"
  /\ running' = Append(running, <<<<"--version">>>>)
  /\ pc' = afterStart("awaitVersion", "getGodotVersion")
  /\ UNCHANGED <<pvars, config, presets, cmds, dl, godotVersion, settings, warnings, failed, idx,
                 buildResults, results, builds, fvars>>

\* the test is left out: whatever was computed is returned
versionMissing_never(version) == FALSE

\* `if (!version)`, godot.ts 159: the empty string is the one falsy string
versionMissing(version) == version = <<>>

\* getGodotVersion, godot.ts 152-163: the engine has returned
GetGodotVersion(run) ==
  /\ pc = "awaitVersion"
  /\ running' = Returned(<<<<"--version">>>>)
  /\ cmds' = Append(cmds, Cmd("godot", <<<<"--version">>>>, run.code))
  /\ godotVersion' = NormalizeVersion(run.out)
  /\ pc' = IF versionMissing(godotVersion') THEN "thrown"
           ELSE IF USE_GODOT_4 THEN "prepareTemplates4" ELSE "prepareTemplates"
  /\ UNCHANGED <<pvars, config, presets, dl, settings, warnings, failed, idx,
                 buildResults, results, builds, fvars>>

\* prepareTemplates, godot.ts 114-126: n of its commands succeed
PrepareTemplates(n) ==
  /\ pc = "prepareTemplates"
  /\ LET templateFile == join(GODOT_WORKING_PATH, GODOT_TEMPLATES_FILENAME)
         tmpPath == join(GODOT_WORKING_PATH, <<"tmp">>)
         templatesPath == join(join(GODOT_WORKING_PATH, <<"templates">>), godotVersion)
         list == << Cmd("io.mkdirP", <<templatesPath>>, 0),
                    Cmd("unzip", <<<<"-q">>, templateFile, <<"-d">>, templatesPath>>, 0),
                    Cmd("mv", <<templatesPath, tmpPath>>, 0),
                    Cmd("mv", <<tmpPath, templatesPath>>, 0),
                    Cmd("ls", <<templatesPath>>, 0) >>
     IN /\ n \in 1..Len(list)
        /\ cmds' = cmds \o RunUntil(list, n)
        /\ pc' = IF n < Len(list) THEN "thrown" ELSE "addEditorSettings"
  /\ UNCHANGED <<pvars, config, presets, running, dl, godotVersion, settings, warnings, failed, idx,
                 buildResults, results, builds, fvars>>

\* prepareTemplates4, godot.ts 128-139: n of its commands succeed
PrepareTemplates4(n) ==
  /\ pc = "prepareTemplates4"
  /\ LET templateFile == join(GODOT_WORKING_PATH, GODOT_TEMPLATES_FILENAME)
         templatesPath == join(GODOT_WORKING_PATH, <<"templates">>)
         godotVersionPath == join(GODOT_WORKING_PATH, godotVersion)
         exportTemplatesPath == join(GODOT_WORKING_PATH, <<"export_templates">>)
         list == << Cmd("unzip", <<templateFile, <<"-d">>, GODOT_WORKING_PATH>>, 0),
                    Cmd("io.mkdirP", <<exportTemplatesPath>>, 0),
                    Cmd("mv", <<templatesPath, godotVersionPath>>, 0),
                    Cmd("mv", <<godotVersionPath, exportTemplatesPath>>, 0) >>
     IN /\ n \in ({0} \cup (2..Len(list)))
        /\ cmds' = cmds \o RunUntil(list, n)
        /\ pc' = IF n < Len(list) THEN "thrown" ELSE "addEditorSettings"
  /\ UNCHANGED <<pvars, config, presets, running, dl, godotVersion, settings, warnings, failed, idx,
                 buildResults, results, builds, fvars>>

editorSettingsPath == join(GODOT_CONFIG_PATH, EDITOR_SETTINGS_FILENAME)

\* io.cp that overwrites the destination
copyTemplate_forced(s) == [exists |-> TRUE, lines |-> <<"template">>]

\* godot.ts 286: io.cp(editorSettingsDist, editorSettingsPath, {force:
\* false}) returns without copying when the destination is a file
copyTemplate(s) ==
  IF s.exists THEN s ELSE [exists |-> TRUE, lines |-> <<"template">>]

\* addEditorSettings, godot.ts 281-288: io.cp with force: false leaves an
\* existing settings file alone
AddEditorSettings ==
  /\ pc = "addEditorSettings"
  /\ cmds' = cmds \o << Cmd("io.mkdirP", <<GODOT_CONFIG_PATH>>, 0),
                        Cmd("io.cp", <<EDITOR_SETTINGS_FILENAME, editorSettingsPath>>, 0) >>
  /\ settings' = copyTemplate(settings)
  /\ pc' = IF WINE_PATH THEN "configureWindowsExport"
           ELSE IF USE_GODOT_4 THEN "importProject" ELSE "doExport"
  /\ UNCHANGED <<pvars, config, presets, running, dl, godotVersion, warnings, failed, idx,
                 buildResults, results, builds, fvars>>

\* configureWindowsExport, godot.ts 224-238: two appending writes
ConfigureWindowsExport ==
  /\ pc = "configureWindowsExport"
  /\ cmds' = cmds \o << Cmd("fs.writeFileSync", <<editorSettingsPath>>, 0),
                        Cmd("fs.writeFileSync", <<editorSettingsPath>>, 0) >>
  /\ settings' = [exists |-> TRUE,
                  lines |-> settings.lines \o WineLines]
  /\ pc' = IF USE_GODOT_4 THEN "importProject" ELSE "doExport"
  /\ UNCHANGED <<pvars, config, presets, running, dl, godotVersion, warnings, failed, idx,
                 buildResults, results, builds, fvars>>

\* importProject, godot.ts 293
importArgs == <<GODOT_PROJECT_FILE_PATH, <<"--headless">>, <<"-e">>, <<"--quit">>>>

\* importProject, godot.ts 291-293: the engine is started
ImportProject_start ==
  /\ pc = "importProject"
  /\ running' = Append(running, importArgs)
  /\ pc' = afterStart("awaitImport", "importProject")
  /\ UNCHANGED <<pvars, config, presets, cmds, dl, godotVersion, settings, warnings, failed, idx,
                 buildResults, results, builds, fvars>>

\* importProject, godot.ts 293-295: the engine has returned
ImportProject(code) ==
  /\ pc = "awaitImport"
  /\ running' = Returned(importArgs)
  /\ cmds' = Append(cmds, Cmd("godot", importArgs, code))
  /\ pc' = IF code # 0 THEN "thrown" ELSE "doExport"
  /\ UNCHANGED <<pvars, config, presets, dl, godotVersion, settings, warnings, failed, idx,
                 buildResults, results, builds, fvars>>

\* --- doExport, godot.ts 166-222

\* getExportPresets, godot.ts 258-279
getExportPresets == presets

\* the suffix of line 185 never appended
executablePathOf_plain(preset) ==
  join(join(GODOT_BUILD_PATH, sanitize(preset.name)), basename(preset.export_path))

\* godot.ts 174-186: the output path of a preset with an export path
executablePathOf(preset) ==
  LET buildDir == join(GODOT_BUILD_PATH, sanitize(preset.name))
      executablePath == join(buildDir, basename(preset.export_path))
  IN IF EXPORT_PACK_ONLY THEN executablePath \o <<".", "p", "c", "k">>
     ELSE executablePath

\* the debug test before the pack-only test
exportFlag_debugFirst ==
  IF USE_GODOT_4
  THEN (IF EXPORT_DEBUG THEN <<"--export-debug">> ELSE <<"--export-release">>)
  ELSE IF EXPORT_DEBUG THEN <<"--export-debug">>
  ELSE IF EXPORT_PACK_ONLY THEN <<"--export-pack">> ELSE <<"--export">>

\* godot.ts 189-199
exportFlag ==
  IF USE_GODOT_4
  THEN (IF EXPORT_DEBUG THEN <<"--export-debug">> ELSE <<"--export-release">>)
  ELSE IF EXPORT_PACK_ONLY THEN <<"--export-pack">>
  ELSE IF EXPORT_DEBUG THEN <<"--export-debug">> ELSE <<"--export">>

\* args.unshift('--headless') in place of args.splice(1, 0, '--headless')
exportArgs_unshift(preset) ==
  LET args == <<GODOT_PROJECT_FILE_PATH, exportFlag, preset.name, executablePathOf(preset)>>
      headless == IF USE_GODOT_4 THEN <<<<"--headless">>>> \o args ELSE args
  IN IF GODOT_VERBOSE THEN Append(headless, <<"--verbose">>) ELSE headless

\* godot.ts 200-204
exportArgs(preset) ==
  LET args == <<GODOT_PROJECT_FILE_PATH, exportFlag, preset.name, executablePathOf(preset)>>
      headless == IF USE_GODOT_4
                  THEN <<args[1], <<"--headless">>>> \o SubSeq(args, 2, Len(args))
                  ELSE args
  IN IF GODOT_VERBOSE THEN Append(headless, <<"--verbose">>) ELSE headless

\* godot.ts 212-218
BuildResult(preset, entryCount) ==
  [ preset |-> preset,
    sanitizedName |-> sanitize(preset.name),
    executablePath |-> executablePathOf(preset),
    directoryEntryCount |-> entryCount,
    directory |-> join(GODOT_BUILD_PATH, sanitize(preset.name)),
    archivePath |-> NoPath ]

\* the test of line 179 left out
hasExportPath_always(preset) == TRUE

\* godot.ts 174-182: the preset has an export path
hasExportPath(preset) == preset.export_path # <<>>

\* the status of the engine ignored
afterExport_ignored(code) == "exportLoop"

\* godot.ts 206-209: a non-zero status of the engine throws
afterExport(code) == IF code # 0 THEN "thrown" ELSE "exportLoop"

\* io.mkdirP on the scratch build area
mkdirP(b, dir) ==
  [d \in DOMAIN b \cup {dir} |-> IF d \in DOMAIN b THEN b[d] ELSE {}]

\* godot.ts 166-170 and 258-279: the presets are read from the file, the
\* loop starts
DoExport_begin(read) ==
  /\ pc = "doExport"
  /\ IF ~hasExportPresets
     THEN pc' = "thrown" /\ UNCHANGED <<idx, buildResults, warnings, presets>>
     ELSE /\ pc' = "exportLoop"
          /\ presets' = read
          /\ idx' = 1
          /\ buildResults' = <<>>
          /\ warnings' = IF read = <<>>
                         THEN Append(warnings, "No presets found") ELSE warnings
  /\ UNCHANGED <<pvars, config, running, cmds, dl, godotVersion, settings, failed,
                 results, builds, fvars>>

\* godot.ts 170-182: a preset without an export path is skipped
DoExport_skip ==
  /\ pc = "exportLoop"
  /\ idx <= Len(getExportPresets)
  /\ ~hasExportPath(getExportPresets[idx])
  /\ warnings' = Append(warnings, "No file path set")
  /\ idx' = idx + 1
  /\ UNCHANGED <<pvars, config, presets, running, pc, cmds, dl, godotVersion, settings, failed,
                 buildResults, results, builds, fvars>>

\* godot.ts 170-206: the build directory of a preset is made and the
\* engine is started on it
DoExport_start ==
  /\ pc = "exportLoop"
  /\ idx <= Len(getExportPresets)
  /\ hasExportPath(getExportPresets[idx])
  /\ LET preset == getExportPresets[idx]
         buildDir == join(GODOT_BUILD_PATH, sanitize(preset.name))
     IN /\ cmds' = Append(cmds, Cmd("io.mkdirP", <<buildDir>>, 0))
        /\ builds' = mkdirP(builds, buildDir)
        /\ running' = Append(running, exportArgs(preset))
  /\ pc' = afterStart("awaitExport", "exportLoop")
  /\ UNCHANGED <<pvars, config, presets, dl, godotVersion, settings, warnings, failed, idx,
                 buildResults, results, fvars>>

\* godot.ts 206-218: the engine has returned with status code and, when
\* wrote, has written the output file
DoExport_export(code, wrote) ==
  /\ pc = "awaitExport"
  /\ LET preset == getExportPresets[idx]
         buildDir == join(GODOT_BUILD_PATH, sanitize(preset.name))
         written == IF code = 0 /\ wrote
                    THEN [builds EXCEPT ![buildDir] = @ \cup {basename(executablePathOf(preset))}]
                    ELSE builds
     IN /\ running' = Returned(exportArgs(preset))
        /\ cmds' = Append(cmds, Cmd("godot", exportArgs(preset), code))
        /\ builds' = written
        /\ pc' = afterExport(code)
        /\ IF pc' = "thrown"
           THEN UNCHANGED <<idx, buildResults>>
           ELSE /\ buildResults' =
                     Append(buildResults, BuildResult(preset, Cardinality(written[buildDir])))
                /\ idx' = idx + 1
  /\ UNCHANGED <<pvars, config, presets, dl, godotVersion, settings, warnings, failed, results, fvars>>

\* godot.ts 221 and 55-58: the list is returned to the caller of exportBuilds
DoExport_return ==
  /\ pc = "exportLoop"
  /\ idx > Len(getExportPresets)
  /\ results' = buildResults
  /\ pc' = "returned"
  /\ UNCHANGED <<pvars, config, presets, running, cmds, dl, godotVersion, settings, warnings, failed, idx,
                 buildResults, builds, fvars>>

Next ==
  \/ ExportBuilds_preflight
  \/ SetupWorkingPath
  \/ StartDownloads
  \/ \E code \in ExitCodes : DownloadTemplates(code)
  \/ \E code \in ExitCodes : DownloadExecutable(code)
  \/ AwaitDownloads
  \/ \E code \in ExitCodes, t \in ExtractedTrees : PrepareExecutable_extract(code, t)
  \/ PrepareExecutable_find
  \/ \E n \in 0..3 : PrepareExecutable_move(n)
  \/ GetGodotVersion_start
  \/ \E run \in VersionRuns : GetGodotVersion(run)
  \/ \E n \in 0..5 : PrepareTemplates(n)
  \/ \E n \in 0..4 : PrepareTemplates4(n)
  \/ AddEditorSettings
  \/ ConfigureWindowsExport
  \/ ImportProject_start
  \/ \E code \in ExitCodes : ImportProject(code)
  \/ \E read \in PresetLists(ExportPresetPool) : DoExport_begin(read)
  \/ DoExport_skip
  \/ DoExport_start
  \/ \E code \in ExitCodes, wrote \in BOOLEAN : DoExport_export(code, wrote)
  \/ DoExport_return

Spec == Init /\ [][Next]_vars

----------------------------------------------------------------------------
(* The file system file.ts works on, and the commands it runs *)

File(data) == [kind |-> "file", data |-> data]
Dir == [kind |-> "dir", data |-> {}]

Exists(f, p) == p \in DOMAIN f
IsFile(f, p) == p \in DOMAIN f /\ f[p].kind = "file"
IsDir(f, p) == p \in DOMAIN f /\ f[p].kind = "dir"

\* the directories above p
Ancestors(p) == { SubSeq(p, 1, k - 1) : k \in { j \in 2..Len(p) : p[j] = Sep } }

\* q lies below the directory d
IsUnder(q, d) == Len(q) > Len(d) + 1 /\ SubSeq(q, 1, Len(d) + 1) = d \o <<Sep>>
Rel(q, d) == SubSeq(q, Len(d) + 2, Len(q))

\* f with the entries of g added or replaced, and the missing directories
\* above them made
Overlay(f, g) ==
  LET above == UNION { Ancestors(q) : q \in DOMAIN g }
  IN [q \in DOMAIN f \cup DOMAIN g \cup above |->
        IF q \in DOMAIN g THEN g[q] ELSE IF q \in DOMAIN f THEN f[q] ELSE Dir]

Remove(f, P) == [q \in DOMAIN f \ P |-> f[q]]

\* the copy written at dest itself, also when dest is a directory
Target_atDest(f, source, dest) == dest

\* where cp, mv and io.cp put source when told dest: inside it when it is a
\* directory
Target(f, source, dest) ==
  IF IsDir(f, dest) THEN join(dest, basename(source)) ELSE dest

\* the file argument of `7z a`: a directory, or its entries when it ends
\* in "/*"
IsGlob(a) == Len(a) > 2 /\ SubSeq(a, Len(a) - 1, Len(a)) = <<Sep, "*">>
GlobDir(a) == IF IsGlob(a) THEN SubSeq(a, 1, Len(a) - 2) ELSE a

\* the entries `7z a` stores for the file argument a
Stored(f, a) ==
  LET src == GlobDir(a)
      below == { q \in DOMAIN f : IsUnder(q, src) }
  IN IF IsFile(f, src) THEN {basename(src)}
     ELSE IF IsGlob(a) THEN { Rel(q, src) : q \in below }
     ELSE {basename(src)} \cup { join(basename(src), Rel(q, src)) : q \in below }

\* the command can succeed on the file system f
CanRun(f, c) ==
  CASE c.prog = "io.mkdirP" -> ~IsFile(f, c.args[1])
    [] c.prog = "unzip" -> IsFile(f, c.args[2])
    [] c.prog = "rm" -> IsFile(f, c.args[1])
    [] c.prog = "ls" -> Exists(f, c.args[1])
    [] c.prog \in {"cp", "mv", "io.cp"} ->
         /\ IsFile(f, c.args[1])
         /\ Target(f, c.args[1], c.args[2]) # c.args[1]
         /\ IsDir(f, dirname(Target(f, c.args[1], c.args[2])))
    [] c.prog = "io.cp -r" -> Exists(f, c.args[1])
    [] c.prog = "7z" ->
         /\ Exists(f, GlobDir(c.args[3]))
         /\ ~IsDir(f, c.args[2])
         /\ IsDir(f, dirname(c.args[2]))

\* the file system after the command has succeeded on f
Effect(f, c) ==
  CASE c.prog = "io.mkdirP" -> Overlay(f, [q \in {c.args[1]} \ DOMAIN f |-> Dir])
    [] c.prog = "unzip" ->
         Overlay(f, [q \in { join(c.args[4], e) : e \in f[c.args[2]].data } |-> File({})])
    [] c.prog = "rm" -> Remove(f, {c.args[1]})
    [] c.prog = "ls" -> f
    [] c.prog \in {"cp", "io.cp"} ->
         Overlay(f, [q \in {Target(f, c.args[1], c.args[2])} |-> f[c.args[1]]])
    [] c.prog = "mv" ->
         Remove(Overlay(f, [q \in {Target(f, c.args[1], c.args[2])} |-> f[c.args[1]]]),
                {c.args[1]})
    [] c.prog = "io.cp -r" ->
         LET src == c.args[1]
             newDest == Target(f, src, c.args[2])
         IN IF IsFile(f, src) THEN Overlay(f, [q \in {newDest} |-> f[src]])
            ELSE Overlay(f, [q \in {newDest} \cup { join(newDest, Rel(r, src)) :
                                                     r \in { x \in DOMAIN f : IsUnder(x, src) } } |->
                               IF q = newDest THEN Dir
                               ELSE f[CHOOSE r \in DOMAIN f :
                                        IsUnder(r, src) /\ join(newDest, Rel(r, src)) = q]])
    [] c.prog = "7z" ->
         Overlay(f, [q \in {c.args[2]} |->
                       File((IF Exists(f, q) THEN f[q].data ELSE {}) \cup Stored(f, c.args[3]))])

\* a command of the task of artifact `by`, with its exit status
PCmd(prog, args, by) == [prog |-> prog, args |-> args, code |-> 0, by |-> by]

----------------------------------------------------------------------------
(* zipBuildResults, zipBuildResult, assembleSteamContentsFor:              *)
(* part_000 68-123, the revision of file.ts that assembles the SDK files   *)

\* constants.ts of that revision is not among the sources: the platforms
\* that carry SDK content, their library files, the identity file
DESKTOP_PLATFORMS == [windows |-> Windows, macOS |-> MacOSX, linux |-> Linux]
DesktopValues == { DESKTOP_PLATFORMS[k] : k \in DOMAIN DESKTOP_PLATFORMS }
STEAM_SDK_TARGET_PATH(platform) ==
  CASE platform = Windows -> <<"sdk", Sep, "steam_api64.dll">>
    [] platform = MacOSX -> <<"sdk", Sep, "libsteam_api.dylib">>
    [] platform = Linux -> <<"sdk", Sep, "libsteam_api.so">>
STEAM_APPID_PATH == join(GODOT_PROJECT_PATH, <<"steam_appid.txt">>)
RELATIVE_EXPORT_PATH == <<"out">>

\* src holds two revisions of zipBuildResult that differ in what they do:
\* file.ts 149-172 (file.ts 47-65 does the same) and part_000 100-123
Revisions == {"file.ts", "part_000"}

\* the own keys of the array Object.values(DESKTOP_PLATFORMS)
ArrayKeys == {<<"0">>, <<"1">>, <<"2">>, <<"length">>}

\* the test that guards the SDK assembly: file.ts 164 asks whether the
\* platform is `in` the array, that is, one of its keys; part_000 116 asks
\* whether the array includes it
isDesktop(platform) ==
  IF REVISION = "file.ts" THEN platform \in ArrayKeys
  ELSE platform \in DesktopValues

\* libPath: file.ts 126-127, part_000 69
libPathOf(platform) ==
  IF REVISION = "file.ts" THEN join(GODOT_PROJECT_PATH, STEAM_SDK_TARGET_PATH(platform))
  ELSE STEAM_SDK_TARGET_PATH(platform)

LowerOf(tok) ==
  CASE tok = "Mac OSX" -> "mac osx"
    [] tok = "Windows Desktop" -> "windows desktop"
    [] tok = "Linux/X11" -> "linux/x11"
    [] tok = "HTML5" -> "html5"
    [] OTHER -> tok
toLowerCase(s) == [k \in DOMAIN s |-> LowerOf(s[k])]

\* part_000 105
isMac(buildResult) == toLowerCase(buildResult.preset.platform) = <<"mac osx">>

\* part_000 106: export_path.match('.app$'), the dot matching any character
endsInDotApp(buildResult) ==
  LET e == buildResult.preset.export_path
  IN /\ Len(e) >= 4
     /\ SubSeq(e, Len(e) - 2, Len(e)) = <<"a", "p", "p">>
     /\ e[Len(e) - 3] # "\n"

\* part_000 103: the deterministic archive path of an artifact
zipPathOf(buildResult) ==
  join(GODOT_ARCHIVE_PATH, buildResult.sanitizedName \o <<".", "z", "i", "p">>)

\* part_000 110-111
macPathOf(buildResult) ==
  join(buildResult.directory, basename(buildResult.preset.export_path))

\* the presets of the artifacts packaged here
DotZip == <<".", "z", "i", "p">>
PackPresetPool ==
  { [name |-> <<"m">>, platform |-> MacOSX, export_path |-> <<"o", Sep, "g">> \o DotZip],
    [name |-> <<"w">>, platform |-> Windows, export_path |-> <<"o", Sep, "g", ".", "exe">>],
    [name |-> <<"w", ":">>, platform |-> Windows, export_path |-> <<"o", Sep, "g", ".", "exe">>],
    [name |-> <<"v">>, platform |-> Windows, export_path |-> <<"q", Sep, "g", ".", "exe">>],
    [name |-> <<"h">>, platform |-> HTML5, export_path |-> <<"p", Sep, "i", ".", "html">>] }

\* the order the presets of the pool have in export_presets.cfg
PackPresetOrder == <<<<"m">>, <<"w">>, <<"w", ":">>, <<"v">>, <<"h">>>>
RankOf(preset) == CHOOSE r \in 1..Len(PackPresetOrder) : PackPresetOrder[r] = preset.name

\* the lists of artifacts handed to file.ts: presets of the pool in the
\* order of the file, as doExport keeps it
PackLists ==
  { l \in PresetLists(PackPresetPool) :
      \A j, k \in 1..Len(l) : j < k => RankOf(l[j]) < RankOf(l[k]) }

\* the archives an earlier run can have left: none, or that of one artifact
StaleSets(list) == {{}} \cup { {zipPathOf(list[k])} : k \in 1..Len(list) }

\* what the engine writes for a preset: for macOS a zip of the bundle, else
\* the executable
EngineOutput(preset) ==
  IF preset.platform = MacOSX
  THEN File({ <<"g", ".", "a", "p", "p", Sep, "Contents", Sep, "MacOS", Sep, "g">> })
  ELSE File({})

\* the file system doExport leaves behind for the BuildResults of list, with
\* the archives of an earlier run at the paths of stale
FsAfterExport(list, stale) ==
  LET outputs == { list[k].executablePath : k \in 1..Len(list) }
      presetAt(q) == list[CHOOSE k \in 1..Len(list) : list[k].executablePath = q].preset
      sdk == { STEAM_SDK_TARGET_PATH(pf) : pf \in DesktopValues }
  IN Overlay(
       Overlay([q \in {GODOT_WORKING_PATH, GODOT_PROJECT_PATH} |-> Dir],
               [q \in {STEAM_APPID_PATH} \cup sdk |-> File({})]),
       [q \in outputs \cup stale |->
          IF q \in stale THEN File({<<"old">>}) ELSE EngineOutput(presetAt(q))])

InitPack ==
  /\ ExportIdle
  /\ tree = EmptyTree /\ found = NotRun
  /\ ARCHIVE_ROOT_FOLDER \in BOOLEAN
  /\ USE_PRESET_EXPORT_PATH \in BOOLEAN
  /\ REVISION \in Revisions
  /\ stage = "ready"
  /\ \E l \in PackLists :
       /\ arts = [k \in 1..Len(l) |-> BuildResult(l[k], 1)]
       /\ \E stale \in StaleSets(arts) :
            fs = FsAfterExport(arts, stale)
  /\ tpc = [k \in 1..Len(arts) |-> "idle"]
  /\ how = [k \in 1..Len(arts) |-> "none"]
  /\ pcmds = [k \in 1..Len(arts) |-> <<>>]
  /\ moveArchived = FALSE /\ mi = 0 /\ copies = <<>> /\ pwarnings = {}
  /\ fsBefore = <<>>

\* the tasks stopped once Promise.all has settled
ZipStages_untilSettled == {"zip"}

\* the stages in which the tasks of zipBuildResults run: a promise that
\* Promise.all has given up on is not cancelled (part_000 93-96)
ZipStages == {"zip", "zipFulfilled", "zipRejected"}

\* the command runs for the task of artifact k and succeeds or fails
Run(c, ok) ==
  /\ ok => CanRun(fs, c)
  /\ fs' = IF ok THEN Effect(fs, c) ELSE fs
  /\ pcmds' = [pcmds EXCEPT ![c.by] = Append(@, [c EXCEPT !.code = IF ok THEN 0 ELSE 1])]

\* zipBuildResults, part_000 90-95: every task is started
ZipBuildResults_start ==
  /\ stage = "ready"
  /\ stage' = "zip"
  /\ tpc' = [k \in 1..Len(arts) |-> "start"]
  /\ fsBefore' = fs
  /\ UNCHANGED <<packConfig, arts, fs, how, pcmds, moveVars, config, evars, fvars>>

\* the archive path recorded whatever the outcome of the archiving step
recordArchive_always(buildResult, zipPath, ok) ==
  [buildResult EXCEPT !.archivePath = zipPath]

\* part_000 122 and its revisions: the archive path is recorded once the
\* archiving step is over
recordArchive(buildResult, zipPath, ok) ==
  IF ok THEN [buildResult EXCEPT !.archivePath = zipPath] ELSE buildResult

\* assembleSteamContentsFor, the first command it runs for a platform: in
\* file.ts 131-133 the library is moved for Windows and nothing is done
\* else; part_000 74-87 has the macOS steps and, else, the copy and the move
assembleFirst(platform) ==
  IF REVISION = "file.ts"
  THEN (IF platform = DESKTOP_PLATFORMS.windows THEN "sdk_mv" ELSE "archive")
  ELSE IF platform = DESKTOP_PLATFORMS.macOS THEN "unzip" ELSE "sdk_cp"

\* zipBuildResult, part_000 100-118 and file.ts 149-167: the archive
\* directory is made and the branch is chosen
ZipBuildResult_begin(k) ==
  /\ stage \in ZipStages
  /\ tpc[k] = "start"
  /\ LET made == Effect(fs, PCmd("io.mkdirP", <<GODOT_ARCHIVE_PATH>>, k))
         zipPath == zipPathOf(arts[k])
         bundle == isMac(arts[k]) /\ ~endsInDotApp(arts[k])
         skip == ~bundle /\ Exists(made, zipPath)
     IN /\ fs' = made
        /\ pcmds' = [pcmds EXCEPT ![k] = Append(@, PCmd("io.mkdirP", <<GODOT_ARCHIVE_PATH>>, k))]
        /\ tpc' = [tpc EXCEPT ![k] =
                     IF bundle THEN (IF REVISION = "file.ts" THEN "archive" ELSE "unzip")
                     ELSE IF skip THEN "done"
                     ELSE IF isDesktop(arts[k].preset.platform)
                          THEN assembleFirst(arts[k].preset.platform)
                     ELSE "archive"]
        /\ arts' = [arts EXCEPT ![k] = recordArchive(@, zipPath, skip)]
        /\ how' = [how EXCEPT ![k] = IF skip THEN "skipped" ELSE @]
  /\ UNCHANGED <<packConfig, stage, moveVars, fsBefore, config, evars, fvars>>

\* the buildDir argument of assembleSteamContentsFor, part_000 112 and 117
assembleDir(buildResult) ==
  IF isMac(buildResult) /\ ~endsInDotApp(buildResult)
  THEN macPathOf(buildResult) ELSE buildResult.directory

\* assembleSteamContentsFor, part_000 74-83: the command of each step of
\* the macOS branch
MacCommand(step, preset, buildDir, k) ==
  LET libPath == libPathOf(preset.platform)
      buildLocation == ReplaceFirst(buildDir, basename(preset.export_path), <<>>)
      resolvedBuildDir == ReplaceFirst(buildDir, DotZip, <<".", "a", "p", "p">>)
      macOSPath == join(join(resolvedBuildDir, <<"Contents">>), <<"MacOS">>)
  IN CASE step = "unzip" -> PCmd("unzip", <<<<"-q">>, buildDir, <<"-d">>, buildLocation>>, k)
       [] step = "rm" -> PCmd("rm", <<buildDir>>, k)
       [] step = "ls" -> PCmd("ls", <<resolvedBuildDir>>, k)
       [] step = "cp" -> PCmd("cp", <<STEAM_APPID_PATH, macOSPath>>, k)
       [] step = "mv" -> PCmd("mv", <<libPath, macOSPath>>, k)
       [] step = "7za" -> PCmd("7z", <<<<"a">>, resolvedBuildDir, buildDir>>, k)

MacSteps == <<"unzip", "rm", "ls", "cp", "mv", "7za">>

\* the step after step, "" after the last
NextStep(steps, step) ==
  LET at == CHOOSE j \in 1..Len(steps) : steps[j] = step
  IN IF at < Len(steps) THEN steps[at + 1] ELSE ""

\* assembleSteamContentsFor, part_000 74-83: one command of the macOS
\* branch returns
Assemble_mac(k, ok) ==
  /\ stage \in ZipStages
  /\ \E j \in 1..Len(MacSteps) : tpc[k] = MacSteps[j]
  /\ Run(MacCommand(tpc[k], arts[k].preset, assembleDir(arts[k]), k), ok)
  /\ tpc' = [tpc EXCEPT ![k] =
               IF ~ok THEN "failed"
               ELSE IF NextStep(MacSteps, tpc[k]) # "" THEN NextStep(MacSteps, tpc[k])
               ELSE "archive"]
  /\ how' = [how EXCEPT ![k] = IF ok THEN @ ELSE "failed"]
  /\ UNCHANGED <<packConfig, stage, arts, moveVars, fsBefore, config, evars, fvars>>

\* assembleSteamContentsFor, part_000 84-87: the command of each step of
\* the other branch
SdkCommand(step, preset, buildDir, k) ==
  IF step = "sdk_cp" THEN PCmd("cp", <<STEAM_APPID_PATH, buildDir>>, k)
  ELSE PCmd("mv", <<libPathOf(preset.platform), buildDir>>, k)

\* assembleSteamContentsFor, part_000 84-87: one command of the other
\* branch returns
Assemble_other(k, ok) ==
  /\ stage \in ZipStages
  /\ tpc[k] \in {"sdk_cp", "sdk_mv"}
  /\ Run(SdkCommand(tpc[k], arts[k].preset, assembleDir(arts[k]), k), ok)
  /\ tpc' = [tpc EXCEPT ![k] =
               IF ~ok THEN "failed" ELSE IF tpc[k] = "sdk_cp" THEN "sdk_mv" ELSE "archive"]
  /\ how' = [how EXCEPT ![k] = IF ok THEN @ ELSE "failed"]
  /\ UNCHANGED <<packConfig, stage, arts, moveVars, fsBefore, config, evars, fvars>>

\* part_000 119: the file argument of the archiver
archiveSource(buildResult) ==
  IF ARCHIVE_ROOT_FOLDER THEN buildResult.directory
  ELSE buildResult.directory \o <<Sep, "*">>

\* part_000 113 and 119: the command that writes the archive, the copy of
\* the re-compressed export for a macOS bundle, the archiver else
archiveCommand(buildResult, k) ==
  IF isMac(buildResult) /\ ~endsInDotApp(buildResult)
  THEN PCmd("io.cp", <<macPathOf(buildResult), zipPathOf(buildResult)>>, k)
  ELSE PCmd("7z", <<<<"a">>, zipPathOf(buildResult), archiveSource(buildResult)>>, k)

\* zipBuildResult, part_000 113 and 119-122: the command that writes the
\* archive returns
ZipBuildResult_archive(k, ok) ==
  /\ stage \in ZipStages
  /\ tpc[k] = "archive"
  /\ Run(archiveCommand(arts[k], k), ok)
  /\ tpc' = [tpc EXCEPT ![k] = IF ok THEN "done" ELSE "failed"]
  /\ how' = [how EXCEPT ![k] = IF ok THEN "archived" ELSE "failed"]
  /\ arts' = [arts EXCEPT ![k] = recordArchive(@, zipPathOf(@), ok)]
  /\ UNCHANGED <<packConfig, stage, moveVars, fsBefore, config, evars, fvars>>

\* zipBuildResults, part_000 96: Promise.all settles, rejected by the first
\* task that fails, fulfilled when every task is done
ZipBuildResults_join ==
  /\ stage = "zip"
  /\ \/ /\ \E k \in 1..Len(arts) : tpc[k] = "failed"
        /\ stage' = "zipRejected"
     \/ /\ \A k \in 1..Len(arts) : tpc[k] = "done"
        /\ stage' = "zipFulfilled"
  /\ UNCHANGED <<packConfig, arts, fs, tpc, how, pcmds, moveVars, fsBefore,
                 config, evars, fvars>>

----------------------------------------------------------------------------
(* moveBuildsToExportDirectory, file.ts 174-208 (the same in part_000     *)
(* 125-159)                                                                *)

\* file.ts 178-182
fullExportPath(buildResult) ==
  IF USE_PRESET_EXPORT_PATH
  THEN join(GODOT_PROJECT_PATH, dirname(buildResult.preset.export_path))
  ELSE RELATIVE_EXPORT_PATH

Settled == \A k \in 1..Len(arts) : tpc[k] \in {"idle", "done", "failed"}

\* the caller calls moveBuildsToExportDirectory, after zipBuildResults has
\* settled and its tasks are over, or without it
MoveBuilds_start(archived) ==
  /\ stage \in {"ready", "zipFulfilled", "zipRejected"}
  /\ Settled
  /\ stage' = "move"
  /\ moveArchived' = archived
  /\ mi' = 1
  /\ copies' = <<>>
  /\ pwarnings' = {}
  /\ fsBefore' = fs
  /\ UNCHANGED <<packConfig, arts, fs, tpc, how, pcmds, config, evars, fvars>>

\* file.ts 177-191: one turn of the loop, for an artifact without archive
\* when archives are moved
MoveBuilds_skip ==
  /\ stage = "move"
  /\ mi <= Len(arts)
  /\ moveArchived /\ arts[mi].archivePath = NoPath
  /\ fs' = Effect(fs, PCmd("io.mkdirP", <<fullExportPath(arts[mi])>>, mi))
  /\ pcmds' = [pcmds EXCEPT ![mi] = Append(@, PCmd("io.mkdirP", <<fullExportPath(arts[mi])>>, mi))]
  /\ pwarnings' = pwarnings \cup {mi}
  /\ mi' = mi + 1
  /\ UNCHANGED <<packConfig, stage, arts, tpc, how, moveArchived, copies, fsBefore,
                 config, evars, fvars>>

\* the promise of artifact k is added to the function of promises
Started(k, src, dst, recursive) ==
  [j \in DOMAIN copies \cup {k} |->
     IF j = k THEN [src |-> src, dst |-> dst, recursive |-> recursive, state |-> "running"]
     ELSE copies[j]]

\* file.ts 177-203: one turn of the loop; the copy is started and the
\* fields of the artifact are set at once
MoveBuilds_turn ==
  /\ stage = "move"
  /\ mi <= Len(arts)
  /\ ~(moveArchived /\ arts[mi].archivePath = NoPath)
  /\ fs' = Effect(fs, PCmd("io.mkdirP", <<fullExportPath(arts[mi])>>, mi))
  /\ pcmds' = [pcmds EXCEPT ![mi] = Append(@, PCmd("io.mkdirP", <<fullExportPath(arts[mi])>>, mi))]
  /\ LET to == fullExportPath(arts[mi])
         newArchivePath == join(to, basename(arts[mi].archivePath))
         newDirectory == join(to, basename(arts[mi].directory))
     IN IF moveArchived
        THEN /\ copies' = Started(mi, arts[mi].archivePath, newArchivePath, FALSE)
             /\ arts' = [arts EXCEPT ![mi].archivePath = newArchivePath]
        ELSE /\ copies' = Started(mi, arts[mi].directory, to, TRUE)
             /\ arts' = [arts EXCEPT ![mi].directory = newDirectory,
                                     ![mi].executablePath =
                                        join(newDirectory, basename(arts[mi].executablePath))]
  /\ mi' = mi + 1
  /\ UNCHANGED <<packConfig, stage, tpc, how, moveArchived, pwarnings, fsBefore,
                 config, evars, fvars>>

\* file.ts 194 and 198: the io.cp of artifact k returns
MoveBuilds_copied(k, ok) ==
  /\ stage \in {"move", "moveRejected"}
  /\ k \in DOMAIN copies
  /\ copies[k].state = "running"
  /\ Run(PCmd(IF copies[k].recursive THEN "io.cp -r" ELSE "io.cp",
              <<copies[k].src, copies[k].dst>>, k), ok)
  /\ copies' = [copies EXCEPT ![k].state = IF ok THEN "ok" ELSE "failed"]
  /\ UNCHANGED <<packConfig, stage, arts, tpc, how, moveArchived, mi, pwarnings, fsBefore,
                 config, evars, fvars>>

\* file.ts 206: Promise.all settles
MoveBuilds_join ==
  /\ stage = "move"
  /\ mi > Len(arts)
  /\ \/ /\ \E k \in DOMAIN copies : copies[k].state = "failed"
        /\ stage' = "moveRejected"
     \/ /\ \A k \in DOMAIN copies : copies[k].state = "ok"
        /\ stage' = "moveFulfilled"
  /\ UNCHANGED <<packConfig, arts, fs, tpc, how, pcmds, moveVars, fsBefore,
                 config, evars, fvars>>

NextPack ==
  \/ ZipBuildResults_start
  \/ \E k \in 1..Len(arts) : ZipBuildResult_begin(k)
  \/ \E k \in 1..Len(arts), ok \in BOOLEAN : Assemble_mac(k, ok)
  \/ \E k \in 1..Len(arts), ok \in BOOLEAN : Assemble_other(k, ok)
  \/ \E k \in 1..Len(arts), ok \in BOOLEAN : ZipBuildResult_archive(k, ok)
  \/ ZipBuildResults_join
  \/ \E archived \in BOOLEAN : MoveBuilds_start(archived)
  \/ MoveBuilds_skip
  \/ MoveBuilds_turn
  \/ \E k \in 1..Len(arts), ok \in BOOLEAN : MoveBuilds_copied(k, ok)
  \/ MoveBuilds_join

SpecPack == InitPack /\ [][NextPack]_vars

----------------------------------------------------------------------------
(* Claims about the export pipeline, checked under Spec *)

\* the engine invocations of doExport among the completed commands
IsExportCmd(c) ==
  /\ c.prog = "godot"
  /\ \A k \in 1..Len(c.args) : c.args[k] \notin {<<"--version">>, <<"-e">>}

ExportCmds == SelectSeq(cmds, IsExportCmd)

ModeFlags ==
  {<<"--export">>, <<"--export-debug">>, <<"--export-pack">>, <<"--export-release">>}

\* the decision table of the export-mode flag
TableFlag ==
  CASE ~USE_GODOT_4 /\ ~EXPORT_PACK_ONLY /\ ~EXPORT_DEBUG -> <<"--export">>
    [] ~USE_GODOT_4 /\ ~EXPORT_PACK_ONLY /\ EXPORT_DEBUG -> <<"--export-debug">>
    [] ~USE_GODOT_4 /\ EXPORT_PACK_ONLY -> <<"--export-pack">>
    [] USE_GODOT_4 /\ ~EXPORT_DEBUG -> <<"--export-release">>
    [] USE_GODOT_4 /\ EXPORT_DEBUG -> <<"--export-debug">>

\* C1: in each of the eight combinations of engine version, pack-only and
\* debug, the one export-mode flag among the arguments of every export
\* invocation is the flag of the decision table.
C1_ExportFlagTable ==
  \A k \in 1..Len(ExportCmds) :
    { ExportCmds[k].args[j] : j \in 1..Len(ExportCmds[k].args) } \cap ModeFlags
      = {TableFlag}

\* an export ran in the legacy, pack-only, debug cell of the table
C1_Witness ==
  /\ ~USE_GODOT_4 /\ EXPORT_PACK_ONLY /\ EXPORT_DEBUG
  /\ ExportCmds # <<>>

\* C4: once an export invocation has returned a non-zero status, doExport
\* has thrown, that invocation is the last command run, and the caller of
\* exportBuilds holds no BuildResult.
C4_FailedExportAborts ==
  \A k \in 1..Len(cmds) :
    (IsExportCmd(cmds[k]) /\ cmds[k].code # 0) =>
      /\ pc = "thrown"
      /\ k = Len(cmds)
      /\ results = <<>>

\* the second preset failed after the first was exported
C4_Witness ==
  /\ pc = "thrown"
  /\ Len(ExportCmds) = 2
  /\ ExportCmds[2].code # 0
  /\ Len(buildResults) = 1

PresetsWithPath == SelectSeq(presets, LAMBDA p : p.export_path # <<>>)

\* C5: when doExport returns, the BuildResults are those of the presets
\* that have an export path, one each and in preset order, and the engine
\* was invoked once for each of these presets and for no other.
C5_OneResultPerExportedPreset ==
  (pc = "returned" /\ ~failed) =>
    /\ Len(results) = Len(PresetsWithPath)
    /\ \A k \in 1..Len(results) : results[k].preset = PresetsWithPath[k]
    /\ Len(ExportCmds) = Len(PresetsWithPath)
    /\ \A k \in 1..Len(ExportCmds) :
         \E j \in 1..Len(ExportCmds[k].args) :
           ExportCmds[k].args[j] = PresetsWithPath[k].name

\* a preset without export path was skipped and a later one exported
C5_Witness ==
  /\ pc = "returned"
  /\ Len(presets) = 2
  /\ presets[1].export_path = <<>>
  /\ Len(results) = 1
  /\ results[1].preset = presets[2]

\* C7: no two presets of distinct names get the same build directory or
\* the same archive path.
C7_SanitizedPathsUnique ==
  \A j, k \in 1..Len(buildResults) :
    buildResults[j].preset.name # buildResults[k].preset.name =>
      /\ buildResults[j].directory # buildResults[k].directory
      /\ zipPathOf(buildResults[j]) # zipPathOf(buildResults[k])

\* C10: without a preset file, exportBuilds has done nothing but report the
\* failure: no command or io call, no download, no settings write, no
\* build directory, no BuildResult.
C10_NoPresetFileFailsFirst ==
  (cfgKind # "file" /\ pc # "exportBuilds") =>
    /\ pc = "returned"
    /\ failed
    /\ cmds = <<>>
    /\ \A d \in DOMAIN dl : dl[d] = "idle"
    /\ settings \in InitialSettings
    /\ builds = <<>>
    /\ tree = EmptyTree
    /\ buildResults = <<>> /\ results = <<>>

C10_Witness ==
  /\ cfgKind = "absent"
  /\ pc = "returned"
  /\ failed

\* the arguments are those of an export invocation
IsExportArgs(args) ==
  \A k \in 1..Len(args) : args[k] \notin {<<"--version">>, <<"-e">>}

\* the presets with an export path before the one doExport stands at
ExportedBefore(n) == SelectSeq(SubSeq(presets, 1, n - 1), LAMBDA p : p.export_path # <<>>)

\* C11: at most one engine invocation is running at any time; while an
\* export invocation runs, the version query has returned, the project
\* import has returned when the engine is current, and the export
\* invocation of every earlier preset has returned.
C11_EngineInvocationsSequential ==
  /\ Len(running) <= 1
  /\ \A r \in 1..Len(running) :
       IsExportArgs(running[r]) =>
         /\ \E k \in 1..Len(cmds) : cmds[k].prog = "godot" /\ cmds[k].args = <<<<"--version">>>>
         /\ USE_GODOT_4 => \E k \in 1..Len(cmds) :
                             cmds[k] = Cmd("godot", importArgs, 0)
         /\ Len(ExportCmds) = Len(ExportedBefore(idx))
         /\ \A k \in 1..Len(ExportCmds) :
              ExportCmds[k] = Cmd("godot", exportArgs(ExportedBefore(idx)[k]), 0)

\* the export of the second preset is running, under the current engine
C11_Witness ==
  /\ USE_GODOT_4
  /\ Len(running) = 1
  /\ IsExportArgs(running[1])
  /\ Len(ExportCmds) = 1
  /\ idx = 2

IsPrefix(a, b) == Len(a) <= Len(b) /\ SubSeq(b, 1, Len(a)) = a

\* C14: no step removes or alters what the editor settings file holds: a
\* file that exists stays, with its content as a prefix of the new content;
\* the template is written only where no file was; and any other change
\* appends exactly the rcedit line and the wine line.
C14_SettingsOnlyAppended ==
  [][ /\ settings.exists => (settings'.exists /\ IsPrefix(settings.lines, settings'.lines))
      /\ settings' # settings =>
           \/ ~settings.exists /\ settings' = [exists |-> TRUE, lines |-> <<"template">>]
           \/ settings.exists /\ settings'.lines = settings.lines \o WineLines
    ]_vars

\* the user's settings file was kept and the two lines appended to it
C14_Witness ==
  /\ WINE_PATH
  /\ settings = [exists |-> TRUE, lines |-> <<"user">> \o WineLines]

\* the two lines were appended again after those of an earlier run
C14_WitnessRerun ==
  settings.lines = <<"template">> \o WineLines \o WineLines

\* C16: no BuildResult of doExport has a directoryEntryCount of 0: its
\* directory is there and holds at least one entry.
C16_NoEmptyBuildResult ==
  \A k \in 1..Len(buildResults) :
    /\ buildResults[k].directoryEntryCount > 0
    /\ buildResults[k].directory \in DOMAIN builds
    /\ builds[buildResults[k].directory] # {}

DotPck == <<".", "p", "c", "k">>

\* the build directory joined with the basename of the export path
PlainOutputPath(preset) ==
  join(join(GODOT_BUILD_PATH, sanitize(preset.name)), basename(preset.export_path))

\* the export invocations, running or returned, in the order they started
ExportInvocations ==
  [k \in 1..Len(ExportCmds) |-> ExportCmds[k].args]
    \o SelectSeq(running, IsExportArgs)

\* the output path among the arguments of an export invocation: the one
\* after the preset name
OutputArg(args) == args[IF USE_GODOT_4 THEN 5 ELSE 4]

\* C17 as stated: '.pck' is appended exactly when pack-only is requested
\* and the engine is current; else the output path is the plain one.
C17_PckOnlyUnderCurrentEngine ==
  \A k \in 1..Len(ExportInvocations) :
    OutputArg(ExportInvocations[k]) =
      PlainOutputPath(PresetsWithPath[k])
        \o (IF EXPORT_PACK_ONLY /\ USE_GODOT_4 THEN DotPck ELSE <<>>)

\* C17, amended: '.pck' is appended to the output path exactly when
\* pack-only is requested, whatever the engine version; else the output
\* path is the build directory joined with the basename of the export
\* path; and the executablePath of every BuildResult is the output path
\* that was passed to the engine for its preset.
C17_PckWhenPackOnly ==
  /\ \A k \in 1..Len(ExportInvocations) :
       OutputArg(ExportInvocations[k]) =
         PlainOutputPath(PresetsWithPath[k])
           \o (IF EXPORT_PACK_ONLY THEN DotPck ELSE <<>>)
  /\ \A k \in 1..Len(buildResults) :
       buildResults[k].executablePath = OutputArg(ExportCmds[k].args)

\* a pack was exported by the legacy engine, with the suffix
C17_Witness ==
  /\ ~USE_GODOT_4 /\ EXPORT_PACK_ONLY
  /\ Len(buildResults) = 1
  /\ buildResults[1].executablePath = PlainOutputPath(buildResults[1].preset) \o DotPck

\* the engine invocations, running or returned
EngineInvocations ==
  { cmds[k].args : k \in { j \in 1..Len(cmds) : cmds[j].prog = "godot" } }
    \cup { running[k] : k \in 1..Len(running) }

VerboseArgs == IF GODOT_VERBOSE THEN <<<<"--verbose">>>> ELSE <<>>

\* C18 as stated: the arguments of an export invocation are the project
\* file, the mode flag, the preset name and the output path, then the
\* verbose flag iff configured; under the current engine the headless flag
\* comes before that list, in every engine invocation; none under legacy.
C18_HeadlessPrepended ==
  /\ \A k \in 1..Len(ExportInvocations) :
       LET preset == PresetsWithPath[k]
       IN ExportInvocations[k] =
            (IF USE_GODOT_4 THEN <<<<"--headless">>>> ELSE <<>>)
              \o <<GODOT_PROJECT_FILE_PATH, TableFlag, preset.name, executablePathOf(preset)>>
              \o VerboseArgs
  /\ \A args \in EngineInvocations :
       IF USE_GODOT_4 THEN args[1] = <<"--headless">>
       ELSE \A j \in 1..Len(args) : args[j] # <<"--headless">>

\* C18, amended: the arguments of an export invocation are the project
\* file, the mode flag, the preset name and the output path in that order,
\* then the verbose flag iff configured; under the current engine the
\* headless flag is inserted after the project file in every export
\* invocation, and the version query carries none; under the legacy engine
\* no invocation carries it.
C18_HeadlessAfterProjectFile ==
  /\ \A k \in 1..Len(ExportInvocations) :
       LET preset == PresetsWithPath[k]
       IN ExportInvocations[k] =
            <<GODOT_PROJECT_FILE_PATH>>
              \o (IF USE_GODOT_4 THEN <<<<"--headless">>>> ELSE <<>>)
              \o <<TableFlag, preset.name, executablePathOf(preset)>>
              \o VerboseArgs
  /\ \A args \in EngineInvocations :
       /\ ~USE_GODOT_4 => \A j \in 1..Len(args) : args[j] # <<"--headless">>
       /\ args[1] # <<"--headless">>
       /\ args = <<<<"--version">>>> \/ (USE_GODOT_4 => args[2] = <<"--headless">>)

\* a verbose export under the current engine has returned
C18_Witness ==
  /\ USE_GODOT_4 /\ GODOT_VERBOSE
  /\ Len(ExportCmds) = 2
  /\ Len(ExportCmds[2].args) = 6

\* the commands with these programs have completed with status 0, one
\* after the other in this order, before position n of cmds
RECURSIVE MatchFrom(_, _, _, _)
MatchFrom(progs, j, i, n) ==
  IF j > Len(progs) THEN TRUE
  ELSE IF i >= n THEN FALSE
  ELSE IF cmds[i].prog = progs[j] /\ cmds[i].code = 0
       THEN MatchFrom(progs, j + 1, i + 1, n)
  ELSE MatchFrom(progs, j, i + 1, n)

DoneInOrder(progs, n) == MatchFrom(progs, 1, 1, n)

\* the engine invocations among the completed commands, by position
EnginePositions == { k \in 1..Len(cmds) : cmds[k].prog = "godot" }

\* where the engine invocation that is running, if any, will be in cmds
RunningPositions == IF running # <<>> THEN {Len(cmds) + 1} ELSE {}

\* template placement, godot.ts 121-125 and 135-138, then the editor
\* settings, godot.ts 283-286
PlacementProgs ==
  IF USE_GODOT_4 THEN <<"unzip", "io.mkdirP", "mv", "mv", "io.mkdirP", "io.cp">>
  ELSE <<"io.mkdirP", "unzip", "mv", "mv", "ls", "io.mkdirP", "io.cp">>

\* C20: the archive of the executable is extracted only after both
\* downloads have completed; every engine invocation, the version query
\* first, starts only after the executable has been moved, put on the
\* search path and made executable, in that order; an export invocation
\* starts only after the templates are placed and the editor settings are
\* set up; and after a failed download nothing is extracted and the engine
\* is never invoked.
C20_ProvisioningOrder ==
  /\ \A k \in 1..Len(cmds) :
       (cmds[k].prog = "7z" /\ cmds[k].args[1] = <<"x">>) =>
         /\ \A d \in DOMAIN dl : dl[d] = "ok"
         /\ \E i, j \in 1..(k - 1) :
              /\ i # j
              /\ cmds[i].prog = "wget" /\ cmds[i].code = 0
              /\ cmds[j].prog = "wget" /\ cmds[j].code = 0
  /\ \A k \in EnginePositions \cup RunningPositions :
       /\ DoneInOrder(<<"7z", "mv", "core.addPath", "chmod">>, k)
       /\ Min(EnginePositions \cup RunningPositions) = k =>
            (IF k <= Len(cmds) THEN cmds[k].args ELSE running[1]) = <<<<"--version">>>>
  /\ \A k \in EnginePositions \cup RunningPositions :
       IsExportArgs(IF k <= Len(cmds) THEN cmds[k].args ELSE running[1]) =>
         /\ DoneInOrder(PlacementProgs, k)
         /\ settings.exists
  /\ (\E k \in 1..Len(cmds) : cmds[k].prog = "wget" /\ cmds[k].code # 0) =>
       /\ \A k \in 1..Len(cmds) : cmds[k].prog \notin {"7z", "godot"}
       /\ running = <<>>

\* an export is running after the whole provisioning
C20_Witness ==
  /\ running # <<>> /\ IsExportArgs(running[1])
  /\ DoneInOrder(<<"wget", "wget", "7z", "mv", "core.addPath", "chmod", "godot">>, Len(cmds) + 1)

\* one download failed after the other was done: nothing else was run
C20_WitnessFailedDownload ==
  /\ pc = "thrown"
  /\ Len(cmds) = 3
  /\ cmds[2].prog = "wget" /\ cmds[2].code = 0
  /\ cmds[3].prog = "wget" /\ cmds[3].code # 0

\* where the version query stands among the completed commands
VersionPositions ==
  { k \in 1..Len(cmds) : cmds[k].prog = "godot" /\ cmds[k].args = <<<<"--version">>>> }

\* the directory the templates are placed under when the version key is
\* the empty string: path.join drops an empty segment
EmptyKeyPath ==
  IF USE_GODOT_4 THEN GODOT_WORKING_PATH
  ELSE join(GODOT_WORKING_PATH, <<"templates">>)

\* C21: getGodotVersion never returns an empty version key: once the
\* version query has returned, an empty godotVersion means that the error
\* was raised and that the query is the last command of the run, with no
\* engine invocation in flight; whenever a command follows the query the
\* key is not empty; the templates are never created at, or moved to, the
\* path an empty key gives; and an export invocation is only made with a
\* key that is not empty.
C21_NoEmptyVersionKey ==
  /\ \A v \in VersionPositions :
       /\ godotVersion = <<>> =>
            /\ pc = "thrown"
            /\ v = Len(cmds)
            /\ running = <<>>
       /\ v < Len(cmds) => godotVersion # <<>>
       /\ \A k \in (v + 1)..Len(cmds) :
            /\ cmds[k].prog = "io.mkdirP" => cmds[k].args[1] # EmptyKeyPath
            /\ cmds[k].prog = "mv" => cmds[k].args[2] # EmptyKeyPath
  /\ Len(ExportInvocations) > 0 => (VersionPositions # {} /\ godotVersion # <<>>)

\* the version query exited with 0 and printed a build-channel suffix and
\* nothing else: stripping left the empty string and the error was raised
C21_Witness ==
  /\ pc = "thrown"
  /\ godotVersion = <<>>
  /\ cmds # <<>>
  /\ cmds[Len(cmds)] = Cmd("godot", <<<<"--version">>>>, 0)

\* the version query failed and printed nothing, and the error was raised
C21_WitnessFailedQuery ==
  /\ pc = "thrown"
  /\ godotVersion = <<>>
  /\ cmds # <<>>
  /\ cmds[Len(cmds)] = Cmd("godot", <<<<"--version">>>>, 1)

----------------------------------------------------------------------------
(* Claims about packaging and relocation, checked under SpecPack *)

\* the commands that archive, extract or assemble SDK content
PackagingProgs == {"7z", "unzip", "rm", "ls", "cp", "mv"}

\* p and what lies below it are the same in f and g
SameAt(f, g, p) ==
  \A q \in DOMAIN f \cup DOMAIN g :
    (q = p \/ IsUnder(q, p)) => (q \in DOMAIN f /\ q \in DOMAIN g /\ f[q] = g[q])

\* C3: for an artifact whose archive existed when zipBuildResults was
\* called, whatever its platform, no archiver, extractor or SDK-assembly
\* command is run, the archive and the build directory stay as they were,
\* and the task ends with archivePath set to the deterministic path.
C3_ExistingArchiveIsKept ==
  stage \in ZipStages =>
    \A k \in 1..Len(arts) :
      IsFile(fsBefore, zipPathOf(arts[k])) =>
        /\ \A j \in 1..Len(pcmds[k]) : pcmds[k][j].prog \notin PackagingProgs
        /\ SameAt(fs, fsBefore, zipPathOf(arts[k]))
        /\ SameAt(fs, fsBefore, arts[k].directory)
        /\ tpc[k] # "failed"
        /\ tpc[k] = "done" => arts[k].archivePath = zipPathOf(arts[k])

IsBundle(buildResult) == isMac(buildResult) /\ ~endsInDotApp(buildResult)

\* the .app bundle the export of a macOS artifact unpacks to
BundleOf(buildResult) ==
  join(buildResult.directory, <<"g", ".", "a", "p", "p">>)

\* C8: for a macOS artifact whose export path does not end in ".app", the
\* archiver is run to compress the bundle into the original archive file,
\* after the extraction, and an artifact that is archived has, at its
\* archivePath, an archive that holds the bundle.
C8_MacBundleRepacked ==
  stage \in ZipStages =>
    \A k \in 1..Len(arts) :
      IsBundle(arts[k]) =>
        /\ \A j \in 1..Len(pcmds[k]) :
             pcmds[k][j].prog = "7z" =>
               /\ pcmds[k][j].args = <<<<"a">>, macPathOf(arts[k]), BundleOf(arts[k])>>
               /\ \E i \in 1..(j - 1) : pcmds[k][i].prog = "unzip"
        /\ how[k] = "archived" =>
             /\ IsFile(fs, arts[k].archivePath)
             /\ \E e \in fs[arts[k].archivePath].data : e[1] = "g"

Touched(c) ==
  CASE c.prog = "io.mkdirP" -> {c.args[1]}
    [] c.prog = "unzip" ->
         IF IsFile(fsBefore, c.args[2])
         THEN { join(c.args[4], e) : e \in fsBefore[c.args[2]].data } ELSE {}
    [] c.prog = "rm" -> {c.args[1]}
    [] c.prog \in {"cp", "io.cp"} -> {Target(fs, c.args[1], c.args[2])}
    [] c.prog = "mv" -> {c.args[1], Target(fs, c.args[1], c.args[2])}
    [] c.prog = "7z" -> {c.args[2]}
    [] OTHER -> {}

TouchedBy(k) == UNION { Touched(pcmds[k][j]) : j \in 1..Len(pcmds[k]) }

\* C12: while zipBuildResults runs, two artifacts of different build
\* directories have no path that the tasks of both create, move, write or
\* delete, but the archive root directory.
C12_TasksShareOnlyArchiveRoot ==
  stage \in {"zip", "zipFulfilled", "zipRejected"} =>
    \A j, k \in 1..Len(arts) :
      (j # k /\ arts[j].sanitizedName # arts[k].sanitizedName) =>
        TouchedBy(j) \cap TouchedBy(k) \subseteq {GODOT_ARCHIVE_PATH}

MoveStages == {"move", "moveFulfilled", "moveRejected"}

\* C6: when archives are moved, an artifact without archivePath gets a
\* warning, keeps its fields, and leaves its destination directory as it
\* was unless a relocated artifact shares it; every artifact that has an
\* archivePath has its copy started.
C6_UnarchivedArtifactSkipped ==
  (stage \in MoveStages /\ moveArchived) =>
    \A k \in 1..(mi - 1) :
      IF arts[k].archivePath = NoPath
      THEN /\ k \in pwarnings
           /\ arts[k] = BuildResult(arts[k].preset, arts[k].directoryEntryCount)
           /\ (\A j \in DOMAIN copies : fullExportPath(arts[j]) # fullExportPath(arts[k]))
                => SameAt(fs, fsBefore, fullExportPath(arts[k]))
      ELSE k \in DOMAIN copies

\* C13: when moveBuildsToExportDirectory has returned normally from
\* relocating raw output, every artifact's scratch build directory has been
\* copied, with all that was below it, into the destination; directory is
\* the location of that copy and executablePath is the executable in it.
C13_RawRelocationCopiesDirectory ==
  (stage = "moveFulfilled" /\ ~moveArchived) =>
    \A k \in 1..Len(arts) :
      LET scratch == BuildResult(arts[k].preset, 1)
          copy == join(fullExportPath(arts[k]), basename(scratch.directory))
      IN /\ arts[k].directory = copy
         /\ IsDir(fs, copy)
         /\ \A q \in DOMAIN fsBefore :
              IsUnder(q, scratch.directory) =>
                /\ join(copy, Rel(q, scratch.directory)) \in DOMAIN fs
                /\ fs[join(copy, Rel(q, scratch.directory))] = fsBefore[q]
         /\ arts[k].executablePath = join(copy, basename(scratch.executablePath))
         /\ ~IsUnder(arts[k].executablePath, scratch.directory)
         /\ IsFile(fsBefore, scratch.executablePath) => IsFile(fs, arts[k].executablePath)

\* two artifacts were relocated raw to the directories of their presets
C13_Witness ==
  /\ stage = "moveFulfilled" /\ ~moveArchived
  /\ USE_PRESET_EXPORT_PATH
  /\ Len(arts) = 2
  /\ fullExportPath(arts[1]) # fullExportPath(arts[2])
  /\ \A k \in 1..2 : IsFile(fs, arts[k].executablePath)

\* the archiver commands of zipBuildResult in the log of artifact k
IsArchiver(c) == c.prog = "7z" /\ c.args[1] = <<"a">>

\* C15: for an artifact of a desktop platform other than macOS that has an
\* SDK library and no archive yet, the library has been moved into the
\* build directory before the archiver is invoked, and the archive written
\* holds it; for a platform that is no desktop platform, nothing is copied
\* or moved.
C15_SdkMovedBeforeArchive ==
  stage \in {"zip", "zipFulfilled", "zipRejected"} =>
    \A k \in 1..Len(arts) :
      LET platform == arts[k].preset.platform
          lib == basename(STEAM_SDK_TARGET_PATH(platform))
      IN /\ (platform \in DesktopValues \ {MacOSX} /\ ~Exists(fsBefore, zipPathOf(arts[k]))) =>
              /\ \A j \in 1..Len(pcmds[k]) :
                   IsArchiver(pcmds[k][j]) =>
                     \E i \in 1..(j - 1) :
                       /\ pcmds[k][i].prog = "mv" /\ pcmds[k][i].code = 0
                       /\ basename(pcmds[k][i].args[1]) = lib
                       /\ pcmds[k][i].args[2] = arts[k].directory
              /\ how[k] = "archived" =>
                   \E e \in fs[arts[k].archivePath].data : basename(e) = lib
         /\ platform \notin DesktopValues =>
              \A j \in 1..Len(pcmds[k]) : pcmds[k][j].prog \notin {"cp", "mv"}

\* the last command of task k is an archiver or extractor that failed
ArchiverFailed(k) ==
  /\ tpc[k] = "failed"
  /\ pcmds[k][Len(pcmds[k])].prog \in {"7z", "unzip"}

\* the step the task of artifact k stands at can be taken: the guard of
\* ZipBuildResult_begin, Assemble_mac, Assemble_other and
\* ZipBuildResult_archive, whose command can always return with a failure
TaskCanStep(k) ==
  /\ stage \in ZipStages
  /\ tpc[k] \in {"start", "sdk_cp", "sdk_mv", "archive"}
                  \cup {MacSteps[j] : j \in 1..Len(MacSteps)}

\* C19: once a task of zipBuildResults has failed, the stage does not
\* return normally but reports the failure; after that report every other
\* task still runs until it is done or has failed itself; a task that is done has its
\* archive at the deterministic path and its archivePath set; and no
\* command is run again after it failed: a failed command is the last of
\* its task.
C19_SiblingsCompleteAfterFailure ==
  stage \in {"zip", "zipFulfilled", "zipRejected"} =>
    /\ (\E j \in 1..Len(arts) : tpc[j] = "failed") => stage # "zipFulfilled"
    /\ stage = "zipRejected" => \E j \in 1..Len(arts) : tpc[j] = "failed"
    /\ \A k \in 1..Len(arts) :
         /\ (stage = "zipRejected" /\ tpc[k] \notin {"done", "failed"}) => TaskCanStep(k)
         /\ tpc[k] = "done" =>
              /\ arts[k].archivePath = zipPathOf(arts[k])
              /\ IsFile(fs, zipPathOf(arts[k]))
         /\ \A i \in 1..Len(pcmds[k]) :
              pcmds[k][i].code # 0 => (i = Len(pcmds[k]) /\ tpc[k] = "failed")

\* the archiver failed for one artifact, the failure was reported, and the
\* task of another artifact has written its archive
C19_Witness ==
  /\ stage = "zipRejected"
  /\ \E j, k \in 1..Len(arts) :
       /\ ArchiverFailed(j)
       /\ tpc[k] = "done" /\ how[k] = "archived"
       /\ pcmds[k][Len(pcmds[k])] = [archiveCommand(arts[k], k) EXCEPT !.code = 0]

\* where the archive of an artifact is copied to: file.ts 192 (part_000 143)
\* applied to the path zipBuildResult recorded
RelocatedArchive(buildResult) ==
  join(fullExportPath(buildResult), basename(zipPathOf(buildResult)))

\* when moveBuildsToExportDirectory has returned normally from relocating
\* archives, every artifact that had an archivePath has it at the
\* destination, a file is there, and the scratch archive is still a file
CopiedOnReturn ==
  (stage = "moveFulfilled" /\ moveArchived) =>
    \A k \in 1..Len(arts) :
      k \notin pwarnings =>
        /\ arts[k].archivePath = RelocatedArchive(arts[k])
        /\ IsFile(fs, arts[k].archivePath)
        /\ IsFile(fs, zipPathOf(arts[k]))
        /\ fs[arts[k].archivePath] = fs[zipPathOf(arts[k])]

\* when moveBuildsToExportDirectory is over, normally or not, no artifact
\* has its archivePath at a destination whose copy did not complete
NeverDangling ==
  (stage \in {"moveFulfilled", "moveRejected"} /\ moveArchived) =>
    \A k \in 1..Len(arts) :
      arts[k].archivePath \notin {NoPath, zipPathOf(arts[k])} =>
        /\ k \in DOMAIN copies
        /\ copies[k].state = "ok"
        /\ IsFile(fs, arts[k].archivePath)

\* C22: relocation of archived output copies and never moves: on a normal
\* return with moveArchived every artifact that had an archivePath has
\* archivePath at <destination>/<basename of the old archivePath>, a file
\* is there and the scratch archive still exists; and an artifact's
\* archivePath is never left at a destination whose copy did not complete.
C22_ArchivedRelocationCopies == CopiedOnReturn /\ NeverDangling

====
